---- MODULE Spec2Model ----
(***************************************************************************)
(* A model of yadwh: the Limit table, the Embed model and its validate,    *)
(* the MessageBuilder and its validate, the transport Client and the       *)
(* MessageAPI operations (create / get / edit / delete).                   *)
(*                                                                         *)
(* Strings that the code only measures (str::len) are modelled by that     *)
(* length, a natural number.  Option<T> is a sequence of at most one       *)
(* element: None is <<>>, Some(v) is <<v>>.                                *)
(***************************************************************************)
EXTENDS Integers, Sequences, FiniteSets, TLC

VARIABLES embed, builder, last

vars == <<embed, builder, last>>

(***************************************************************************)
(* Limit (client.rs)                                                       *)
(***************************************************************************)
Limit_EMBEDS == 10
Limit_FIELDS == 25
Limit_USERNAME == 80
Limit_CONTENT == 2000
Limit_AUTHOR_NAME == 256
Limit_TITLE == 256
Limit_DESCRIPTION == 4096
Limit_FIELD_NAME == 256
Limit_FIELD_VALUE == 1024
Limit_FOOTER_TEXT == 2048
Limit_EMBED_TOTAL == 6000

(***************************************************************************)
(* Bounds of the explored inputs.                                          *)
(***************************************************************************)
\* Fields of an embed that may carry any of FieldInputs; later fields are short.
MaxVariedFields == 2
\* How many fields beyond Limit_FIELDS an embed is grown to.
MaxExtraFields == 1
\* Embeds of a message that may be built by any of Funcs; later ones are empty.
MaxVariedEmbeds == 2
\* How many embeds beyond Limit_EMBEDS a response message may carry.
MaxExtraEmbeds == 1
\* Pieces a colour string is put together from.
MaxColorPieces == 3
\* Pieces a webhook URL is put together from.
MaxUrlPieces == 5
\* Operations that run concurrently through clones of one client.
MaxTasks == 2
\* Attributes an embed holds at once when every setter is explored.
MaxSetAttributes == 2

(***************************************************************************)
(* Option, Result and WebhookError                                         *)
(***************************************************************************)
None == <<>>
Some(v) == <<v>>

Ok(v) == [tag |-> "Ok", val |-> v]
Err(e) == [tag |-> "Err", err |-> e]

TooBig(name, size, max) == [kind |-> "TooBig", name |-> name, size |-> size, max |-> max]
NoContent == [kind |-> "NoContent"]
Unknown(text) == [kind |-> "Unknown", text |-> text]
BadStatus(code) == [kind |-> "BadStatus", code |-> code]
BadParse(text) == [kind |-> "BadParse", text |-> text]

\* RangeInclusive written as the half-open range `0..max`.
RangeExclusive(size, max) == 0 <= size /\ size < max

\* The `0..=max` range pattern on a usize.
RangeInclusive(size, max) == 0 <= size /\ size <= max

(***************************************************************************)
(* Embed (embed.rs)                                                        *)
(***************************************************************************)
EmbedAuthor(name, url, icon_url, proxy_icon_url) ==
    [name |-> name, url |-> url, icon_url |-> icon_url, proxy_icon_url |-> proxy_icon_url]

EmbedField(name, value, inline) == [name |-> name, value |-> value, inline |-> inline]

EmbedFooter(text, icon_url, proxy_icon_url) ==
    [text |-> text, icon_url |-> icon_url, proxy_icon_url |-> proxy_icon_url]

Embed_new ==
    [author |-> None, title |-> None, description |-> None, url |-> None,
     timestamp |-> None, color |-> None, fields |-> <<>>, footer |-> None,
     image |-> None, thumbnail |-> None, video |-> None, provider |-> None]

EmbedMedia(url, proxy_url, height, width) ==
    [url |-> url, proxy_url |-> proxy_url, height |-> height, width |-> width]

EmbedProvider(name, url) == [name |-> name, url |-> url]

Embed_title(e, title) == [e EXCEPT !.title = Some(title)]

Embed_url(e, url) == [e EXCEPT !.url = Some(url)]

Embed_timestamp(e, timestamp) == [e EXCEPT !.timestamp = Some(timestamp)]

Embed_image(e, url, proxy_url, height, width) ==
    [e EXCEPT !.image = Some(EmbedMedia(url, proxy_url, height, width))]

Embed_thumbnail(e, url, proxy_url, height, width) ==
    [e EXCEPT !.thumbnail = Some(EmbedMedia(url, proxy_url, height, width))]

Embed_video(e, url, proxy_url, height, width) ==
    [e EXCEPT !.video = Some(EmbedMedia(url, proxy_url, height, width))]

Embed_provider(e, name, url) == [e EXCEPT !.provider = Some(EmbedProvider(name, url))]

Embed_description(e, description) == [e EXCEPT !.description = Some(description)]

Embed_footer(e, text, icon_url, proxy_icon_url) ==
    [e EXCEPT !.footer = Some(EmbedFooter(text, icon_url, proxy_icon_url))]

Embed_author(e, name, url, icon_url, proxy_icon_url) ==
    [e EXCEPT !.author = Some(EmbedAuthor(name, url, icon_url, proxy_icon_url))]

\* Embed_field refusing a field beyond Limit_FIELDS.
Embed_field_Capped(e, name, value, inline) ==
    IF Len(e.fields) >= Limit_FIELDS THEN e
    ELSE [e EXCEPT !.fields = Append(@, EmbedField(name, value, inline))]

Embed_field(e, name, value, inline) ==
    [e EXCEPT !.fields = Append(@, EmbedField(name, value, inline))]

\* char::to_digit(16): the value of a hexadecimal digit.
HexDigit ==
    ("0" :> 0) @@ ("1" :> 1) @@ ("2" :> 2) @@ ("3" :> 3) @@ ("4" :> 4) @@ ("5" :> 5) @@
    ("6" :> 6) @@ ("7" :> 7) @@ ("8" :> 8) @@ ("9" :> 9) @@
    ("a" :> 10) @@ ("b" :> 11) @@ ("c" :> 12) @@ ("d" :> 13) @@ ("e" :> 14) @@ ("f" :> 15) @@
    ("A" :> 10) @@ ("B" :> 11) @@ ("C" :> 12) @@ ("D" :> 13) @@ ("E" :> 14) @@ ("F" :> 15)

\* A u32 is kept as its two 16-bit halves: the value is hi * 2^16 + lo.
Half == 65536

U32(hi, lo) == [hi |-> hi, lo |-> lo]

\* acc * 16 + digit in 32 bits, as checked_mul and checked_add compute it:
\* None when the result does not fit.
u32_push_digit(acc, digit) ==
    LET lo == acc.lo * 16 + digit
        hi == acc.hi * 16 + (lo \div Half)
    IN  IF hi >= Half THEN None ELSE Some(U32(hi, lo % Half))

\* The digit loop of u32::from_str_radix(_, 16): every character must be a
\* digit, and the value must stay within u32.
RECURSIVE u32_from_digits(_, _)
u32_from_digits(digits, acc) ==
    IF digits = <<>> THEN Ok(acc)
    ELSE IF Head(digits) \notin DOMAIN HexDigit THEN Err("InvalidDigit")
    ELSE LET next == u32_push_digit(acc, HexDigit[Head(digits)])
         IN  IF next = None THEN Err("PosOverflow")
             ELSE u32_from_digits(Tail(digits), next[1])

\* u32::from_str_radix(src, 16): a string is the sequence of its characters.
\* An empty string and a lone sign are errors; one leading `+` is skipped
\* and a `-` is no digit of an unsigned type.
u32_from_str_radix_16(src) ==
    IF src = <<>> THEN Err("Empty")
    ELSE IF Len(src) = 1 /\ Head(src) \in {"+", "-"} THEN Err("InvalidDigit")
    ELSE IF Head(src) = "+" THEN u32_from_digits(Tail(src), U32(0, 0))
    ELSE u32_from_digits(src, U32(0, 0))

\* Embed_color parsing the string as it is, `#` included.
Embed_color_NoStrip(e, color) ==
    IF color = <<>> THEN e
    ELSE LET color_u32 == u32_from_str_radix_16(color)
         IN  IF color_u32.tag = "Err" THEN e
             ELSE [e EXCEPT !.color = Some(color_u32.val)]

\* Embed_color clearing the colour when the string does not parse.
Embed_color_ClearOnError(e, color) ==
    IF color = <<>> THEN [e EXCEPT !.color = None]
    ELSE LET color_hex == IF Head(color) = "#" THEN Tail(color) ELSE color
             color_u32 == u32_from_str_radix_16(color_hex)
         IN  IF color_u32.tag = "Err" THEN [e EXCEPT !.color = None]
             ELSE [e EXCEPT !.color = Some(color_u32.val)]

\* Embed_color storing 0 when the string does not parse.
Embed_color_ZeroOnError(e, color) ==
    IF color = <<>> THEN e
    ELSE LET color_hex == IF Head(color) = "#" THEN Tail(color) ELSE color
             color_u32 == u32_from_str_radix_16(color_hex)
         IN  IF color_u32.tag = "Err" THEN [e EXCEPT !.color = Some(U32(0, 0))]
             ELSE [e EXCEPT !.color = Some(color_u32.val)]

Embed_color(e, color) ==
    IF color = <<>> THEN e
    ELSE LET color_hex == IF Head(color) = "#" THEN Tail(color) ELSE color
             color_u32 == u32_from_str_radix_16(color_hex)
         IN  IF color_u32.tag = "Err" THEN e
             ELSE [e EXCEPT !.color = Some(color_u32.val)]

\* Embed_validate_fields checking a field's value before its name.
RECURSIVE Embed_validate_fields_ValueFirst(_, _, _)
Embed_validate_fields_ValueFirst(fields, i, total) ==
    IF i > Len(fields) THEN Ok(total)
    ELSE LET name == fields[i].name
             value == fields[i].value
         IN  IF ~RangeInclusive(value, Limit_FIELD_VALUE)
             THEN Err(TooBig("field value", value, Limit_FIELD_VALUE))
             ELSE IF ~RangeInclusive(name, Limit_FIELD_NAME)
             THEN Err(TooBig("field name", name, Limit_FIELD_NAME))
             ELSE Embed_validate_fields_ValueFirst(fields, i + 1, total + name + value)

\* Embed_validate_fields leaving the field values out of the running total.
RECURSIVE Embed_validate_fields_NameOnly(_, _, _)
Embed_validate_fields_NameOnly(fields, i, total) ==
    IF i > Len(fields) THEN Ok(total)
    ELSE LET name == fields[i].name
             value == fields[i].value
         IN  IF ~RangeInclusive(name, Limit_FIELD_NAME)
             THEN Err(TooBig("field name", name, Limit_FIELD_NAME))
             ELSE IF ~RangeInclusive(value, Limit_FIELD_VALUE)
             THEN Err(TooBig("field value", value, Limit_FIELD_VALUE))
             ELSE Embed_validate_fields_NameOnly(fields, i + 1, total + name)

\* The `for field in self.fields.iter()` loop of validate, from field i on,
\* with the running total so far: Ok(total) or the first field error.
RECURSIVE Embed_validate_fields(_, _, _)
Embed_validate_fields(fields, i, total) ==
    IF i > Len(fields) THEN Ok(total)
    ELSE LET name == fields[i].name
             value == fields[i].value
         IN  IF ~RangeInclusive(name, Limit_FIELD_NAME)
             THEN Err(TooBig("field name", name, Limit_FIELD_NAME))
             ELSE IF ~RangeInclusive(value, Limit_FIELD_VALUE)
             THEN Err(TooBig("field value", value, Limit_FIELD_VALUE))
             ELSE Embed_validate_fields(fields, i + 1, total + name + value)

Embed_validate(e) ==
    LET author == IF e.author = None THEN 0 ELSE e.author[1].name
        title == IF e.title = None THEN 0 ELSE e.title[1]
        desc == IF e.description = None THEN 0 ELSE e.description[1]
        footer == IF e.footer = None THEN 0 ELSE e.footer[1].text
    IN  IF ~RangeInclusive(author, Limit_AUTHOR_NAME)
        THEN Err(TooBig("author", author, Limit_AUTHOR_NAME))
        ELSE IF ~RangeInclusive(title, Limit_TITLE)
        THEN Err(TooBig("title", title, Limit_TITLE))
        ELSE IF ~RangeInclusive(desc, Limit_DESCRIPTION)
        THEN Err(TooBig("description", desc, Limit_DESCRIPTION))
        ELSE IF ~RangeInclusive(footer, Limit_FOOTER_TEXT)
        THEN Err(TooBig("footer", footer, Limit_FOOTER_TEXT))
        ELSE LET r == Embed_validate_fields(e.fields, 1, author + title + desc + footer)
             IN  IF r.tag = "Err" THEN r
                 ELSE IF RangeInclusive(r.val, Limit_EMBED_TOTAL) THEN Ok(r.val)
                 ELSE Err(TooBig("embed", r.val, Limit_EMBED_TOTAL))

\* MessageBuilder::new (message.rs)
MessageBuilder_new == [username |-> None, content |-> None, tts |-> None, embeds |-> <<>>]

(***************************************************************************)
(* The record of the last call: which operation ran last and what it       *)
(* returned.  A mutation of the object makes an earlier result stale.      *)
(***************************************************************************)
NoRet == [tag |-> "None"]
NoReqs == <<>>
Call(op, ret) ==
    [op |-> op, ret |-> ret, reqs |-> NoReqs, sent |-> <<>>, answers |-> <<>>, calls |-> 0]
NoCall == Call("none", NoRet)

(***************************************************************************)
(* Specification of the Embed model alone: an Embed is built by chained    *)
(* setters and checked by validate.                                        *)
(***************************************************************************)
\* Input lengths: each ceiling, one past it, and a footer that fills the
\* aggregate budget next to a full description.
AuthorNames == {Limit_AUTHOR_NAME, Limit_AUTHOR_NAME + 1}
Titles == {Limit_TITLE, Limit_TITLE + 1}
Descriptions == {Limit_DESCRIPTION, Limit_DESCRIPTION + 1}
FooterTexts == {Limit_FOOTER_TEXT, Limit_FOOTER_TEXT + 1,
                Limit_EMBED_TOTAL - Limit_DESCRIPTION,
                Limit_EMBED_TOTAL - Limit_DESCRIPTION + 1}
ShortField == <<1, 1>>
FieldInputs == {ShortField,
                <<Limit_FIELD_NAME, Limit_FIELD_VALUE>>,
                <<Limit_FIELD_NAME + 1, 1>>,
                <<1, Limit_FIELD_VALUE + 1>>,
                <<Limit_FIELD_NAME + 1, Limit_FIELD_VALUE + 1>>}

AllShort(fields) == \A i \in 1..Len(fields) : <<fields[i].name, fields[i].value>> = ShortField

EmbedNew ==
    /\ embed' = Embed_new
    /\ last' = NoCall
    /\ UNCHANGED builder

EmbedTitle ==
    \E t \in Titles :
        /\ embed' = Embed_title(embed, t)
        /\ last' = NoCall
        /\ UNCHANGED builder

EmbedDescription ==
    \E d \in Descriptions :
        /\ embed' = Embed_description(embed, d)
        /\ last' = NoCall
        /\ UNCHANGED builder

EmbedFooterSet ==
    \E t \in FooterTexts :
        /\ embed' = Embed_footer(embed, t, None, None)
        /\ last' = NoCall
        /\ UNCHANGED builder

EmbedAuthorSet ==
    \E n \in AuthorNames :
        /\ embed' = Embed_author(embed, n, None, None, None)
        /\ last' = NoCall
        /\ UNCHANGED builder

EmbedFieldAdd ==
    \E f \in FieldInputs :
        /\ \/ Len(embed.fields) < MaxVariedFields
           \/ /\ f = ShortField
              /\ AllShort(embed.fields)
              /\ Len(embed.fields) < Limit_FIELDS + MaxExtraFields
        /\ embed' = Embed_field(embed, f[1], f[2], None)
        /\ last' = NoCall
        /\ UNCHANGED builder

EmbedValidate ==
    /\ last' = Call("Embed::validate", Embed_validate(embed))
    /\ UNCHANGED <<embed, builder>>

InitEmbed ==
    /\ embed = Embed_new
    /\ builder = MessageBuilder_new
    /\ last = NoCall

NextEmbed ==
    \/ EmbedNew
    \/ EmbedTitle
    \/ EmbedDescription
    \/ EmbedFooterSet
    \/ EmbedAuthorSet
    \/ EmbedFieldAdd
    \/ EmbedValidate

SpecEmbed == InitEmbed /\ [][NextEmbed]_vars

(***************************************************************************)
(* MessageBuilder (message.rs)                                             *)
(***************************************************************************)
\* A setter returns the builder it leaves behind and its Result.
\* MessageBuilder_username rejecting a username of exactly Limit_USERNAME.
MessageBuilder_username_AtLimit(b, username) ==
    [self |-> [b EXCEPT !.username = Some(username)],
     ret |-> IF username >= Limit_USERNAME
             THEN Err(TooBig("username", username, Limit_USERNAME))
             ELSE Ok("()")]

MessageBuilder_username(b, username) ==
    [self |-> [b EXCEPT !.username = Some(username)],
     ret |-> IF username > Limit_USERNAME
             THEN Err(TooBig("username", username, Limit_USERNAME))
             ELSE Ok("()")]

\* MessageBuilder_content checking the content before assigning it.
MessageBuilder_content_CheckFirst(b, content) ==
    IF content > Limit_CONTENT
    THEN [self |-> b, ret |-> Err(TooBig("content", content, Limit_CONTENT))]
    ELSE [self |-> [b EXCEPT !.content = Some(content)], ret |-> Ok("()")]

MessageBuilder_content(b, content) ==
    [self |-> [b EXCEPT !.content = Some(content)],
     ret |-> IF content > Limit_CONTENT
             THEN Err(TooBig("content", content, Limit_CONTENT))
             ELSE Ok("()")]

MessageBuilder_tts(b, tts) == [b EXCEPT !.tts = Some(tts)]

\* MessageBuilder_from keeping the content only when content() accepts it.
MessageBuilder_from_CheckedContent(message) ==
    LET set == MessageBuilder_content(MessageBuilder_new, message.content)
    IN  [(IF set.ret.tag = "Ok" THEN set.self ELSE MessageBuilder_new)
            EXCEPT !.embeds = message.embeds]

\* from: the Result of content() is dropped by `.ok()`, the embeds are cloned.
MessageBuilder_from(message) ==
    [MessageBuilder_content(MessageBuilder_new, message.content).self
        EXCEPT !.embeds = message.embeds]

\* A closure passed to embed() is the chain of Embed setter calls it makes.
SetTitle(n) == [set |-> "title", a |-> n, b |-> 0]
SetDescription(n) == [set |-> "description", a |-> n, b |-> 0]
SetFooter(n) == [set |-> "footer", a |-> n, b |-> 0]
SetAuthor(n) == [set |-> "author", a |-> n, b |-> 0]
SetField(n, v) == [set |-> "field", a |-> n, b |-> v]

RECURSIVE ApplyFunc(_, _)
ApplyFunc(func, e) ==
    IF func = <<>> THEN e
    ELSE LET c == Head(func)
             e1 == CASE c.set = "title" -> Embed_title(e, c.a)
                     [] c.set = "description" -> Embed_description(e, c.a)
                     [] c.set = "footer" -> Embed_footer(e, c.a, None, None)
                     [] c.set = "author" -> Embed_author(e, c.a, None, None, None)
                     [] c.set = "field" -> Embed_field(e, c.a, c.b, None)
         IN  ApplyFunc(Tail(func), e1)

\* MessageBuilder_embed comparing with `<=`: an 11th embed is appended.
MessageBuilder_embed_OffByOne(b, func) ==
    IF Len(b.embeds) <= Limit_EMBEDS
    THEN [self |-> [b EXCEPT !.embeds = Append(@, ApplyFunc(func, Embed_new))],
          calls |-> 1]
    ELSE [self |-> b, calls |-> 0]

\* embed: the builder left behind and how many times func was called.
MessageBuilder_embed(b, func) ==
    IF Len(b.embeds) < Limit_EMBEDS
    THEN [self |-> [b EXCEPT !.embeds = Append(@, ApplyFunc(func, Embed_new))],
          calls |-> 1]
    ELSE [self |-> b, calls |-> 0]

\* MessageBuilder_validate_embeds assigning the embed's total instead of adding it.
RECURSIVE MessageBuilder_validate_embeds_Assign(_, _, _)
MessageBuilder_validate_embeds_Assign(embeds, i, total) ==
    IF i > Len(embeds) THEN Ok(total)
    ELSE LET r == Embed_validate(embeds[i])
         IN  IF r.tag = "Err" THEN r
             ELSE MessageBuilder_validate_embeds_Assign(embeds, i + 1, r.val)

\* The `for embed in self.embeds.iter()` loop of validate, from embed i on.
RECURSIVE MessageBuilder_validate_embeds(_, _, _)
MessageBuilder_validate_embeds(embeds, i, total) ==
    IF i > Len(embeds) THEN Ok(total)
    ELSE LET r == Embed_validate(embeds[i])
         IN  IF r.tag = "Err" THEN r
             ELSE MessageBuilder_validate_embeds(embeds, i + 1, total + r.val)

\* MessageBuilder_validate refusing a message without content and embeds.
MessageBuilder_validate_RequiresBody(b) ==
    IF b.username # None /\ ~RangeInclusive(b.username[1], Limit_USERNAME)
    THEN Err(TooBig("username", b.username[1], Limit_USERNAME))
    ELSE IF b.content = None /\ b.embeds = <<>>
    THEN Err(Unknown("empty message"))
    ELSE IF b.content # None /\ ~RangeInclusive(b.content[1], Limit_CONTENT)
    THEN Err(TooBig("content", b.content[1], Limit_CONTENT))
    ELSE LET r == MessageBuilder_validate_embeds(b.embeds, 1, 0)
         IN  IF r.tag = "Err" THEN r
             ELSE IF RangeInclusive(r.val, Limit_EMBED_TOTAL) THEN Ok(r.val)
             ELSE Err(TooBig("embed", r.val, Limit_EMBED_TOTAL))

\* MessageBuilder_validate checking the content before the username.
MessageBuilder_validate_ContentFirst(b) ==
    IF b.content # None /\ ~RangeInclusive(b.content[1], Limit_CONTENT)
    THEN Err(TooBig("content", b.content[1], Limit_CONTENT))
    ELSE IF b.username # None /\ ~RangeInclusive(b.username[1], Limit_USERNAME)
    THEN Err(TooBig("username", b.username[1], Limit_USERNAME))
    ELSE LET r == MessageBuilder_validate_embeds(b.embeds, 1, 0)
         IN  IF r.tag = "Err" THEN r
             ELSE IF RangeInclusive(r.val, Limit_EMBED_TOTAL) THEN Ok(r.val)
             ELSE Err(TooBig("embed", r.val, Limit_EMBED_TOTAL))

\* MessageBuilder_validate matching username and content against `0..max`.
MessageBuilder_validate_HalfOpen(b) ==
    IF b.username # None /\ ~RangeExclusive(b.username[1], Limit_USERNAME)
    THEN Err(TooBig("username", b.username[1], Limit_USERNAME))
    ELSE IF b.content # None /\ ~RangeExclusive(b.content[1], Limit_CONTENT)
    THEN Err(TooBig("content", b.content[1], Limit_CONTENT))
    ELSE LET r == MessageBuilder_validate_embeds(b.embeds, 1, 0)
         IN  IF r.tag = "Err" THEN r
             ELSE IF RangeInclusive(r.val, Limit_EMBED_TOTAL) THEN Ok(r.val)
             ELSE Err(TooBig("embed", r.val, Limit_EMBED_TOTAL))

\* MessageBuilder_validate starting its total from the content's length.
MessageBuilder_validate_CountsContent(b) ==
    IF b.username # None /\ ~RangeInclusive(b.username[1], Limit_USERNAME)
    THEN Err(TooBig("username", b.username[1], Limit_USERNAME))
    ELSE IF b.content # None /\ ~RangeInclusive(b.content[1], Limit_CONTENT)
    THEN Err(TooBig("content", b.content[1], Limit_CONTENT))
    ELSE LET r == MessageBuilder_validate_embeds(b.embeds, 1,
                      IF b.content = None THEN 0 ELSE b.content[1])
         IN  IF r.tag = "Err" THEN r
             ELSE IF RangeInclusive(r.val, Limit_EMBED_TOTAL) THEN Ok(r.val)
             ELSE Err(TooBig("embed", r.val, Limit_EMBED_TOTAL))

MessageBuilder_validate(b) ==
    IF b.username # None /\ ~RangeInclusive(b.username[1], Limit_USERNAME)
    THEN Err(TooBig("username", b.username[1], Limit_USERNAME))
    ELSE IF b.content # None /\ ~RangeInclusive(b.content[1], Limit_CONTENT)
    THEN Err(TooBig("content", b.content[1], Limit_CONTENT))
    ELSE LET r == MessageBuilder_validate_embeds(b.embeds, 1, 0)
         IN  IF r.tag = "Err" THEN r
             ELSE IF RangeInclusive(r.val, Limit_EMBED_TOTAL) THEN Ok(r.val)
             ELSE Err(TooBig("embed", r.val, Limit_EMBED_TOTAL))

(***************************************************************************)
(* JSON (serde).  A JSON object is a function from the keys it holds.      *)
(***************************************************************************)
\* #[serde(skip_serializing_if = "Option::is_none")] on every key of r but
\* those of `always`, which hold plain values.
\* SkipNone emitting null for a field that is None.
SkipNone_Null(r, always) ==
    [k \in DOMAIN r |->
        IF k \in always THEN r[k] ELSE IF r[k] = None THEN "null" ELSE r[k][1]]

\* A struct as a JSON object: the keys in `always` are emitted as they are,
\* every other key holds an Option and is skipped when it is None.
SkipNone(r, always) ==
    [k \in {k \in DOMAIN r : k \in always \/ r[k] # None} |->
        IF k \in always THEN r[k] ELSE r[k][1]]

Serialize_Embed(e) ==
    LET opt(k, always) == IF e[k] = None THEN None ELSE Some(SkipNone(e[k][1], always))
        flat == [e EXCEPT !.fields = [i \in 1..Len(e.fields) |-> SkipNone(e.fields[i], {"name", "value"})],
                          !.author = opt("author", {"name"}),
                          !.footer = opt("footer", {"text"}),
                          !.image = opt("image", {}),
                          !.thumbnail = opt("thumbnail", {}),
                          !.video = opt("video", {}),
                          !.provider = opt("provider", {})]
    IN  SkipNone(flat, {"fields"})

Serialize_MessageBuilder(b) ==
    SkipNone([b EXCEPT !.embeds = [i \in 1..Len(b.embeds) |-> Serialize_Embed(b.embeds[i])]],
             {"embeds"})

\* A key a JSON object lacks deserializes to None when its type is Option.
WithNone(j, always, optional) ==
    [k \in always \cup optional |->
        IF k \in always THEN j[k]
        ELSE IF k \in DOMAIN j THEN Some(j[k]) ELSE None]

EmbedOptionKeys == {"author", "title", "description", "url", "timestamp", "color",
                    "footer", "image", "thumbnail", "video", "provider"}

Deserialize_Embed(j) ==
    LET sub(r, k, always, optional) ==
            IF r[k] = None THEN None ELSE Some(WithNone(r[k][1], always, optional))
        e0 == WithNone(j, {"fields"}, EmbedOptionKeys)
    IN  [e0 EXCEPT !.fields = [i \in 1..Len(e0.fields) |->
                                  WithNone(e0.fields[i], {"name", "value"}, {"inline"})],
                   !.author = sub(e0, "author", {"name"}, {"url", "icon_url", "proxy_icon_url"}),
                   !.footer = sub(e0, "footer", {"text"}, {"icon_url", "proxy_icon_url"}),
                   !.image = sub(e0, "image", {}, {"url", "proxy_url", "height", "width"}),
                   !.thumbnail = sub(e0, "thumbnail", {}, {"url", "proxy_url", "height", "width"}),
                   !.video = sub(e0, "video", {}, {"url", "proxy_url", "height", "width"}),
                   !.provider = sub(e0, "provider", {}, {"name", "url"})]

MessageKeys == {"id", "channel_id", "content", "timestamp", "tts", "mention_everyone",
                "embeds", "pinned", "webhook_id", "type"}

\* serde_json::from_str::<Message>: a text is modelled by the JSON object it
\* parses to, None when it is no JSON object at all.
Deserialize_Message(text) ==
    IF text = None THEN Err("not json")
    ELSE IF ~(MessageKeys \subseteq DOMAIN text[1]) THEN Err("missing field")
    ELSE IF \E i \in 1..Len(text[1].embeds) : ~("fields" \in DOMAIN text[1].embeds[i])
    THEN Err("missing field")
    ELSE LET m == WithNone(text[1], MessageKeys, {"edited_timestamp"})
         IN  Ok([m EXCEPT !.embeds = [i \in 1..Len(m.embeds) |-> Deserialize_Embed(m.embeds[i])]])

(***************************************************************************)
(* Client (client.rs)                                                      *)
(***************************************************************************)
ROOT_URI == "https://discord.com/api/v10/webhooks"

Client_new(webhook_id, webhook_token) == [id |-> webhook_id, token |-> webhook_token]

\* #[derive(Clone)]: the strings are copied, the connection pool is shared.
Client_clone(c) == [id |-> c.id, token |-> c.token]

\* Client_url with the token put before the id.
Client_url_TokenFirst(c) == <<ROOT_URI, "/", c.token, "/", c.id>>

\* Formatted strings are the sequences of their pieces.
Client_url(c) == <<ROOT_URI, "/", c.id, "/", c.token>>

\* One HTTP exchange as the transport reports it: whether a response arrived,
\* its status, whether its body could be read and was UTF-8, and its text.
Exchange(arrived, status, readable, utf8, text) ==
    [arrived |-> arrived, status |-> status, readable |-> readable, utf8 |-> utf8,
     text |-> text]

\* Client_send taking every 2xx status for success.
Client_send_Any2xx(c, method, endpoint, body, x) ==
    [req |-> [method |-> method, uri |-> Client_url(c) \o endpoint,
              content_type |-> "application/json", body |-> body],
     ret |-> IF ~x.arrived THEN Err(Unknown("request to API"))
             ELSE IF x.status >= 200 /\ x.status < 300 /\ x.status # 204
             THEN IF ~x.readable THEN Err(Unknown("unable to convert http body"))
                  ELSE IF ~x.utf8 THEN Err(Unknown("unable to convert to json"))
                  ELSE Ok(x.text)
             ELSE IF x.status = 204 THEN Err(NoContent)
             ELSE Err(BadStatus(<<"Status Code: ", x.status>>))]

\* send: the request it issues and the Result it returns for exchange x.
Client_send(c, method, endpoint, body, x) ==
    [req |-> [method |-> method, uri |-> Client_url(c) \o endpoint,
              content_type |-> "application/json", body |-> body],
     ret |-> IF ~x.arrived THEN Err(Unknown("request to API"))
             ELSE IF x.status = 200
             THEN IF ~x.readable THEN Err(Unknown("unable to convert http body"))
                  ELSE IF ~x.utf8 THEN Err(Unknown("unable to convert to json"))
                  ELSE Ok(x.text)
             ELSE IF x.status = 204 THEN Err(NoContent)
             ELSE Err(BadStatus(<<"Status Code: ", x.status>>))]

(***************************************************************************)
(* WebhookApi::from_url, as the specification describes it.  A URL is the  *)
(* sequence of its characters, and so are the two strings of the client.   *)
(***************************************************************************)
\* str::split('/'): the segments between the slashes, empty ones included.
RECURSIVE Split(_, _)
Split(str, segment) ==
    IF str = <<>> THEN <<segment>>
    ELSE IF Head(str) = "/" THEN <<segment>> \o Split(Tail(str), <<>>)
    ELSE Split(Tail(str), Append(segment, Head(str)))

MinUrlSegments == 7

\* from_url accepting a URL of one segment less.
WebhookApi_from_url_OneLess(url) ==
    LET parts == Split(url, <<>>)
    IN  IF Len(parts) < MinUrlSegments - 1 THEN Err(BadParse("url"))
        ELSE Ok(Client_new(parts[Len(parts) - 1], parts[Len(parts)]))

WebhookApi_from_url(url) ==
    LET parts == Split(url, <<>>)
    IN  IF Len(parts) < MinUrlSegments THEN Err(BadParse("url"))
        ELSE Ok(Client_new(parts[Len(parts) - 1], parts[Len(parts)]))

(***************************************************************************)
(* MessageAPI (message.rs)                                                 *)
(***************************************************************************)
EmptyBody == None

\* What a call to the API leaves: its Result, the requests it issued and
\* the Results of the sends it awaited.
Outcome(ret, sends) ==
    [ret |-> ret,
     reqs |-> [i \in 1..Len(sends) |-> sends[i].req],
     sent |-> [i \in 1..Len(sends) |-> sends[i].ret]]

\* ParseResponse reporting a 204 answer as an Unknown error.
ParseResponse_NoContentUnknown(sent, what) ==
    IF sent.ret.tag = "Ok"
    THEN LET resp == Deserialize_Message(sent.ret.val)
         IN  IF resp.tag = "Ok"
             THEN Outcome(Ok(resp.val), <<sent>>)
             ELSE Outcome(Err(BadParse(what)), <<sent>>)
    ELSE IF sent.ret.err = NoContent THEN Outcome(Err(Unknown(what)), <<sent>>)
    ELSE Outcome(sent.ret, <<sent>>)

\* ParseResponse reporting a body of the wrong schema as an Unknown error.
ParseResponse_UnknownOnBadBody(sent, what) ==
    IF sent.ret.tag = "Ok"
    THEN LET resp == Deserialize_Message(sent.ret.val)
         IN  IF resp.tag = "Ok"
             THEN Outcome(Ok(resp.val), <<sent>>)
             ELSE Outcome(Err(Unknown(what)), <<sent>>)
    ELSE Outcome(sent.ret, <<sent>>)

\* The `match send(..).await` of create, get and edit.
ParseResponse(sent, what) ==
    IF sent.ret.tag = "Ok"
    THEN LET resp == Deserialize_Message(sent.ret.val)
         IN  IF resp.tag = "Ok"
             THEN Outcome(Ok(resp.val), <<sent>>)
             ELSE Outcome(Err(BadParse(what)), <<sent>>)
    ELSE Outcome(sent.ret, <<sent>>)

\* MessageAPI_create sending the message before validating it.
MessageAPI_create_SendFirst(c, message, thread_id, x) ==
    LET valid == MessageBuilder_validate(message)
        url == IF thread_id # None
               THEN <<"?wait=true", "&thread_id=", thread_id[1]>>
               ELSE <<"?wait=true">>
        body == Some(Serialize_MessageBuilder(message))
        sent == Client_send(c, "POST", url, body, x)
    IN  IF valid.tag = "Err" THEN Outcome(valid, <<sent>>)
        ELSE ParseResponse(sent, "create response")

MessageAPI_create(c, message, thread_id, x) ==
    LET valid == MessageBuilder_validate(message)
    IN  IF valid.tag = "Err" THEN Outcome(valid, <<>>)
        ELSE
         LET url == IF thread_id # None
                    THEN <<"?wait=true", "&thread_id=", thread_id[1]>>
                    ELSE <<"?wait=true">>
             body == Some(Serialize_MessageBuilder(message))
         IN  ParseResponse(Client_send(c, "POST", url, body, x), "create response")

\* MessageAPI_get sending the request once more when the first send failed.
MessageAPI_get_Retry(c, id, x) ==
    LET sent == Client_send(c, "GET", <<"/messages/", id>>, EmptyBody, x)
        done == ParseResponse(sent, "get response")
    IN  IF sent.ret.tag = "Err" THEN Outcome(done.ret, <<sent, sent>>) ELSE done

MessageAPI_get(c, id, x) ==
    ParseResponse(Client_send(c, "GET", <<"/messages/", id>>, EmptyBody, x), "get response")

MessageAPI_edit(c, id, message, x) ==
    LET valid == MessageBuilder_validate(message)
    IN  IF valid.tag = "Err" THEN Outcome(valid, <<>>)
        ELSE
         ParseResponse(Client_send(c, "PATCH", <<"/messages/", id>>,
                                   Some(Serialize_MessageBuilder(message)), x),
                       "edit response")

\* MessageAPI_delete returning Ok(()) whatever send returned.
MessageAPI_delete_AlwaysOk(c, id, x) ==
    LET sent == Client_send(c, "DELETE", <<"/messages/", id>>, EmptyBody, x)
    IN  Outcome(Ok("()"), <<sent>>)

\* MessageAPI_delete returning every error of send, NoContent included.
MessageAPI_delete_Strict(c, id, x) ==
    LET sent == Client_send(c, "DELETE", <<"/messages/", id>>, EmptyBody, x)
    IN  IF sent.ret.tag = "Ok" THEN Outcome(Ok("()"), <<sent>>)
        ELSE Outcome(sent.ret, <<sent>>)

MessageAPI_delete(c, id, x) ==
    LET sent == Client_send(c, "DELETE", <<"/messages/", id>>, EmptyBody, x)
    IN  IF sent.ret.tag = "Ok" THEN Outcome(Ok("()"), <<sent>>)
        ELSE IF sent.ret.err = NoContent THEN Outcome(Ok("()"), <<sent>>)
        ELSE Outcome(sent.ret, <<sent>>)

(***************************************************************************)
(* Specifications of the message layer.  Spec: one MessageBuilder is built *)
(* and changed by its operations and handed to the MessageAPI of one       *)
(* client; the remote service answers every request with any of Exchanges. *)
(* SpecBuilder: the builder's own operations, with builders filled up to   *)
(* the cap of embeds.                                                      *)
(***************************************************************************)
TheClient == Client_new("1111", "abcd")

\* Closures handed to embed(): the empty one, two that together sit on both
\* sides of the aggregate ceiling, and two whose embeds fail differently.
HalfTotal == Limit_EMBED_TOTAL \div 2
EmptyFunc == <<>>
Funcs == {EmptyFunc,
          <<SetDescription(HalfTotal)>>,
          <<SetDescription(HalfTotal + 1)>>,
          <<SetTitle(Limit_TITLE + 1)>>,
          <<SetAuthor(Limit_AUTHOR_NAME + 1), SetDescription(Limit_DESCRIPTION + 1)>>}

Usernames == {Limit_USERNAME, Limit_USERNAME + 1}
Contents == {Limit_CONTENT, Limit_CONTENT + 1}
MessageIds == {"M1"}
ThreadIds == {None, Some("T1")}

\* A response Message as the remote service holds it.
Message(content, embeds) ==
    [id |-> "M1", channel_id |-> "C1", content |-> content, timestamp |-> "t0",
     edited_timestamp |-> None, tts |-> FALSE, mention_everyone |-> FALSE,
     embeds |-> embeds, pinned |-> FALSE, webhook_id |-> "1111", type |-> 0]

Messages ==
    {Message(Limit_CONTENT + 1, <<>>),
     Message(Limit_CONTENT, <<ApplyFunc(<<SetDescription(HalfTotal)>>, Embed_new)>>),
     Message(Limit_CONTENT, <<ApplyFunc(<<SetTitle(1), SetAuthor(1)>>, Embed_new),
                              ApplyFunc(<<SetDescription(1), SetField(1, 1)>>, Embed_new)>>),
     Message(Limit_CONTENT, [i \in 1..(Limit_EMBEDS + MaxExtraEmbeds) |-> Embed_new])}

\* The JSON text the remote service sends for a message.
MessageText(m) ==
    Some(SkipNone([m EXCEPT !.embeds = [i \in 1..Len(m.embeds) |-> Serialize_Embed(m.embeds[i])]],
                  MessageKeys))

BodyTexts == {MessageText(m) : m \in Messages} \cup {None, Some([id |-> "M1"])}

Exchanges ==
    {Exchange(FALSE, 0, FALSE, FALSE, None),
     Exchange(TRUE, 200, FALSE, FALSE, None),
     Exchange(TRUE, 200, TRUE, FALSE, None),
     Exchange(TRUE, 204, TRUE, TRUE, None),
     Exchange(TRUE, 201, TRUE, TRUE, None),
     Exchange(TRUE, 404, TRUE, TRUE, None)}
    \cup {Exchange(TRUE, 200, TRUE, TRUE, t) : t \in BodyTexts}

\* What a call to the API with exchange x on offer has left: the exchange is
\* consumed once for every request issued.
Returned(op, out, x) ==
    [op |-> op, ret |-> out.ret, reqs |-> out.reqs, sent |-> out.sent,
     answers |-> [i \in 1..Len(out.reqs) |-> x], calls |-> 0]

\* from(&message): the message passed and, behind the shared reference, the
\* message the caller holds after the call.
FromCall(message, source) ==
    [op |-> "MessageBuilder::from", ret |-> NoRet, reqs |-> NoReqs, sent |-> <<>>,
     answers |-> <<>>, calls |-> 0, arg |-> message, source |-> source]

\* username(s) or content(s): its Result and the string s passed.
SetterCall(op, ret, arg) ==
    [op |-> op, ret |-> ret, reqs |-> NoReqs, sent |-> <<>>, answers |-> <<>>,
     calls |-> 0, arg |-> arg]

New ==
    /\ builder' = MessageBuilder_new
    /\ last' = Call("MessageBuilder::new", NoRet)
    /\ UNCHANGED embed

From ==
    \E m \in Messages :
        /\ builder' = MessageBuilder_from(m)
        /\ last' = FromCall(m, m)
        /\ UNCHANGED embed

Username ==
    \E u \in Usernames :
        /\ builder' = MessageBuilder_username(builder, u).self
        /\ last' = SetterCall("MessageBuilder::username", MessageBuilder_username(builder, u).ret, u)
        /\ UNCHANGED embed

Content ==
    \E c \in Contents :
        /\ builder' = MessageBuilder_content(builder, c).self
        /\ last' = SetterCall("MessageBuilder::content", MessageBuilder_content(builder, c).ret, c)
        /\ UNCHANGED embed

Tts ==
    \E t \in BOOLEAN :
        /\ builder' = MessageBuilder_tts(builder, t)
        /\ last' = Call("MessageBuilder::tts", NoRet)
        /\ UNCHANGED embed

\* embed(func) with any of Funcs, on a builder that holds fewer than
\* MaxVariedEmbeds embeds or is full.
EmbedAdd ==
    \E f \in Funcs :
        /\ \/ Len(builder.embeds) < MaxVariedEmbeds
           \/ Len(builder.embeds) >= Limit_EMBEDS
        /\ builder' = MessageBuilder_embed(builder, f).self
        /\ last' = [Call("MessageBuilder::embed", NoRet)
                       EXCEPT !.calls = MessageBuilder_embed(builder, f).calls]
        /\ UNCHANGED embed

\* embed(func) with the empty closure, filling the builder up to its cap.
EmbedPad ==
    /\ Len(builder.embeds) >= MaxVariedEmbeds
    /\ Len(builder.embeds) < Limit_EMBEDS
    /\ builder' = MessageBuilder_embed(builder, EmptyFunc).self
    /\ last' = [Call("MessageBuilder::embed", NoRet)
                   EXCEPT !.calls = MessageBuilder_embed(builder, EmptyFunc).calls]
    /\ UNCHANGED embed

Validate ==
    /\ last' = Call("MessageBuilder::validate", MessageBuilder_validate(builder))
    /\ UNCHANGED <<embed, builder>>

Create ==
    \E t \in ThreadIds, x \in Exchanges :
        /\ last' = Returned("MessageAPI::create", MessageAPI_create(TheClient, builder, t, x), x)
        /\ UNCHANGED <<embed, builder>>

Get ==
    \E id \in MessageIds, x \in Exchanges :
        /\ last' = Returned("MessageAPI::get", MessageAPI_get(TheClient, id, x), x)
        /\ UNCHANGED <<embed, builder>>

Edit ==
    \E id \in MessageIds, x \in Exchanges :
        /\ last' = Returned("MessageAPI::edit", MessageAPI_edit(TheClient, id, builder, x), x)
        /\ UNCHANGED <<embed, builder>>

Delete ==
    \E id \in MessageIds, x \in Exchanges :
        /\ last' = Returned("MessageAPI::delete", MessageAPI_delete(TheClient, id, x), x)
        /\ UNCHANGED <<embed, builder>>

Init ==
    /\ embed = Embed_new
    /\ builder = MessageBuilder_new
    /\ last = Call("MessageBuilder::new", NoRet)

Next ==
    \/ New
    \/ From
    \/ Username
    \/ Content
    \/ Tts
    \/ EmbedAdd
    \/ Validate
    \/ Create
    \/ Get
    \/ Edit
    \/ Delete

Spec == Init /\ [][Next]_vars

\* The MessageBuilder alone, filled up to its cap of embeds.
NextBuilder ==
    \/ New
    \/ From
    \/ Username
    \/ Content
    \/ Tts
    \/ EmbedAdd
    \/ EmbedPad
    \/ Validate

SpecBuilder == Init /\ [][NextBuilder]_vars

(***************************************************************************)
(* Specification of Embed::color: the caller puts a colour string together *)
(* from pieces and passes it to color() of an embed, again and again.      *)
(***************************************************************************)
ColorPieces ==
    {<<"#">>, <<"+">>, <<"0">>, <<"a">>, <<"G">>, <<"C", "B", "A", "6", "F", "7">>}

RECURSIVE Flatten(_)
Flatten(pieces) == IF pieces = <<>> THEN <<>> ELSE Head(pieces) \o Flatten(Tail(pieces))

\* The string being put together, no call made with it yet.
Typing(arg) == [op |-> "none", arg |-> arg, ret |-> NoRet]

ColorNew ==
    /\ embed' = Embed_new
    /\ last' = Typing(<<>>)
    /\ UNCHANGED builder

ColorType ==
    \E p \in ColorPieces :
        /\ Len(last.arg) < MaxColorPieces
        /\ last' = Typing(Append(last.arg, p))
        /\ UNCHANGED <<embed, builder>>

ColorClear ==
    /\ last' = Typing(<<>>)
    /\ UNCHANGED <<embed, builder>>

EmbedColor ==
    /\ embed' = Embed_color(embed, Flatten(last.arg))
    /\ last' = [op |-> "Embed::color", arg |-> last.arg, ret |-> NoRet]
    /\ UNCHANGED builder

\* title() and field() called on the embed between the calls of color().
ColorTitle ==
    /\ embed' = Embed_title(embed, 1)
    /\ last' = Typing(last.arg)
    /\ UNCHANGED builder

ColorField ==
    /\ embed.fields = <<>>
    /\ embed' = Embed_field(embed, 1, 1, None)
    /\ last' = Typing(last.arg)
    /\ UNCHANGED builder

InitColor ==
    /\ embed = Embed_new
    /\ builder = MessageBuilder_new
    /\ last = Typing(<<>>)

NextColor ==
    \/ ColorNew
    \/ ColorType
    \/ ColorClear
    \/ ColorTitle
    \/ ColorField
    \/ EmbedColor

SpecColor == InitColor /\ [][NextColor]_vars

(***************************************************************************)
(* Specification of from_url: the caller puts a URL together from pieces   *)
(* and passes it to from_url.                                              *)
(***************************************************************************)
UrlBase == <<"h", "t", "t", "p", "s", ":", "/", "/", "h", "o", "s", "t", "/">>
UrlApi == <<"a", "p", "i", "/", "w", "e", "b", "h", "o", "o", "k", "s", "/">>
UrlId == <<"1", "1", "1", "1">>
UrlToken == <<"a", "b", "c", "d">>
UrlShort == <<"s", "h", "o", "r", "t">>

UrlPieces == {UrlBase, UrlApi, UrlId, UrlToken, UrlShort, <<"/">>}

UrlType ==
    \E p \in UrlPieces :
        /\ Len(last.arg) < MaxUrlPieces
        /\ last' = Typing(Append(last.arg, p))
        /\ UNCHANGED <<embed, builder>>

UrlClear ==
    /\ last' = Typing(<<>>)
    /\ UNCHANGED <<embed, builder>>

FromUrl ==
    /\ last' = [op |-> "WebhookApi::from_url", arg |-> last.arg,
                ret |-> WebhookApi_from_url(Flatten(last.arg))]
    /\ UNCHANGED <<embed, builder>>

InitUrl ==
    /\ embed = Embed_new
    /\ builder = MessageBuilder_new
    /\ last = Typing(<<>>)

NextUrl ==
    \/ UrlType
    \/ UrlClear
    \/ FromUrl

SpecUrl == InitUrl /\ [][NextUrl]_vars

(***************************************************************************)
(* Specification of the setters of Embed: every setter is called on one    *)
(* embed, on top of at most MaxSetAttributes other attributes, and field() *)
(* beyond Limit_FIELDS.                                                    *)
(***************************************************************************)
SetAttributes(e) == {k \in DOMAIN e \ {"fields"} : e[k] # None}

\* The embed has room for attribute k: it holds k already or holds fewer
\* than MaxSetAttributes attributes.
Room(k) == embed[k] # None \/ Cardinality(SetAttributes(embed)) < MaxSetAttributes

\* A setter of Embed has returned: the arguments it was called with.
EmbedSetter(op, arg) == SetterCall(op, NoRet, arg)

SetterTitle ==
    \E t \in {1, Limit_TITLE + 1} :
        /\ Room("title")
        /\ embed' = Embed_title(embed, t)
        /\ last' = EmbedSetter("Embed::title", t)
        /\ UNCHANGED builder

SetterDescription ==
    /\ Room("description")
    /\ embed' = Embed_description(embed, Limit_DESCRIPTION + 1)
    /\ last' = EmbedSetter("Embed::description", Limit_DESCRIPTION + 1)
    /\ UNCHANGED builder

SetterUrl ==
    /\ Room("url")
    /\ embed' = Embed_url(embed, 1)
    /\ last' = EmbedSetter("Embed::url", 1)
    /\ UNCHANGED builder

SetterTimestamp ==
    /\ Room("timestamp")
    /\ embed' = Embed_timestamp(embed, 1)
    /\ last' = EmbedSetter("Embed::timestamp", 1)
    /\ UNCHANGED builder

SetterFooter ==
    \E i \in {None, Some(1)} :
        /\ Room("footer")
        /\ embed' = Embed_footer(embed, Limit_FOOTER_TEXT + 1, i, None)
        /\ last' = EmbedSetter("Embed::footer",
                               [text |-> Limit_FOOTER_TEXT + 1, icon_url |-> i,
                                proxy_icon_url |-> None])
        /\ UNCHANGED builder

SetterImage ==
    /\ Room("image")
    /\ embed' = Embed_image(embed, Some(1), None, Some(2), None)
    /\ last' = EmbedSetter("Embed::image",
                           [url |-> Some(1), proxy_url |-> None, height |-> Some(2),
                            width |-> None])
    /\ UNCHANGED builder

SetterThumbnail ==
    /\ Room("thumbnail")
    /\ embed' = Embed_thumbnail(embed, Some(2), None, None, Some(3))
    /\ last' = EmbedSetter("Embed::thumbnail",
                           [url |-> Some(2), proxy_url |-> None, height |-> None,
                            width |-> Some(3)])
    /\ UNCHANGED builder

SetterVideo ==
    /\ Room("video")
    /\ embed' = Embed_video(embed, Some(3), Some(4), None, None)
    /\ last' = EmbedSetter("Embed::video",
                           [url |-> Some(3), proxy_url |-> Some(4), height |-> None,
                            width |-> None])
    /\ UNCHANGED builder

SetterProvider ==
    /\ Room("provider")
    /\ embed' = Embed_provider(embed, Some(1), None)
    /\ last' = EmbedSetter("Embed::provider", [name |-> Some(1), url |-> None])
    /\ UNCHANGED builder

SetterAuthor ==
    /\ Room("author")
    /\ embed' = Embed_author(embed, Limit_AUTHOR_NAME + 1, Some(1), None, None)
    /\ last' = EmbedSetter("Embed::author",
                           [name |-> Limit_AUTHOR_NAME + 1, url |-> Some(1),
                            icon_url |-> None, proxy_icon_url |-> None])
    /\ UNCHANGED builder

\* field() with a short and with an oversized field on an embed of fewer
\* than MaxVariedFields fields, and with short fields beyond Limit_FIELDS.
SetterField ==
    \E f \in {<<1, 1, None>>, <<Limit_FIELD_NAME + 1, Limit_FIELD_VALUE + 1, Some(TRUE)>>} :
        /\ \/ Len(embed.fields) < MaxVariedFields
           \/ /\ f[3] = None
              /\ AllShort(embed.fields)
              /\ Len(embed.fields) < Limit_FIELDS + MaxExtraFields
        /\ embed' = Embed_field(embed, f[1], f[2], f[3])
        /\ last' = EmbedSetter("Embed::field", [name |-> f[1], value |-> f[2], inline |-> f[3]])
        /\ UNCHANGED builder

InitSetters ==
    /\ embed = Embed_new
    /\ builder = MessageBuilder_new
    /\ last = NoCall

NextSetters ==
    \/ EmbedNew
    \/ SetterTitle
    \/ SetterDescription
    \/ SetterUrl
    \/ SetterTimestamp
    \/ SetterFooter
    \/ SetterImage
    \/ SetterThumbnail
    \/ SetterVideo
    \/ SetterProvider
    \/ SetterAuthor
    \/ SetterField

SpecSetters == InitSetters /\ [][NextSetters]_vars

(***************************************************************************)
(* Specification of concurrent operations: MaxTasks tasks each hold a      *)
(* MessageAPI made from one client and run one operation at a time; an     *)
(* operation issues its request, the remote service answers it at some     *)
(* later time, and the operation then resumes from its await.              *)
(***************************************************************************)
MessageAPI_new(client) == [client |-> Client_clone(client)]

\* The four operations of MessageAPI by name.
ApiCall(c, op, args, x) ==
    CASE op = "MessageAPI::create" -> MessageAPI_create(c, args.message, args.thread_id, x)
      [] op = "MessageAPI::get" -> MessageAPI_get(c, args.id, x)
      [] op = "MessageAPI::edit" -> MessageAPI_edit(c, args.id, args.message, x)
      [] op = "MessageAPI::delete" -> MessageAPI_delete(c, args.id, x)

\* What an operation has done when it reaches the await of send: the one
\* request it has issued, or nothing when validation has ended it before.
Issued(c, op, args) == ApiCall(c, op, args, Exchange(FALSE, 0, FALSE, FALSE, None)).reqs

\* The answer the transport hands to task i of tasks, which is the one with
\* the lowest number that has an answer waiting.
Delivered_Shared(tasks, i) ==
    tasks[CHOOSE j \in DOMAIN tasks :
             /\ tasks[j].pc = "answered"
             /\ \A k \in DOMAIN tasks : tasks[k].pc = "answered" => j <= k].answer[1]

\* The answer the transport hands to the future of task i of tasks: the
\* response to the request that task has issued.
Delivered(tasks, i) == tasks[i].answer[1]

NoArgs == [message |-> MessageBuilder_new, thread_id |-> None, id |-> "M1"]

TaskMessages == {MessageBuilder_new, MessageBuilder_content(MessageBuilder_new, Limit_CONTENT + 1).self}

TaskCalls ==
    {[op |-> "MessageAPI::create", args |-> [NoArgs EXCEPT !.message = m, !.thread_id = t]] :
        m \in TaskMessages, t \in ThreadIds}
    \cup {[op |-> "MessageAPI::get", args |-> [NoArgs EXCEPT !.id = id]] : id \in {"M1", "M2"}}
    \cup {[op |-> "MessageAPI::edit", args |-> [NoArgs EXCEPT !.message = m]] : m \in TaskMessages}
    \cup {[op |-> "MessageAPI::delete", args |-> NoArgs]}

TaskAnswers ==
    {Exchange(FALSE, 0, FALSE, FALSE, None),
     Exchange(TRUE, 204, TRUE, TRUE, None),
     Exchange(TRUE, 404, TRUE, TRUE, None),
     Exchange(TRUE, 200, TRUE, TRUE, MessageText(Message(Limit_CONTENT, <<>>)))}

Task(pc, api, op, args, reqs, answer, ret) ==
    [pc |-> pc, api |-> api, op |-> op, args |-> args, reqs |-> reqs, answer |-> answer,
     ret |-> ret]

\* A task that holds its MessageAPI and runs no operation.
IdleTask(api) == Task("idle", api, "none", NoArgs, <<>>, <<>>, NoRet)

Tasks(tasks) == [op |-> "tasks", tasks |-> tasks]

\* An operation starts: up to its await, or to its end when it issues no
\* request.
TaskStart ==
    \E i \in DOMAIN last.tasks, call \in TaskCalls :
        LET t == last.tasks[i]
            reqs == Issued(t.api.client, call.op, call.args)
        IN  /\ t.pc = "idle"
            /\ last' = Tasks([last.tasks EXCEPT ![i] =
                  IF reqs = <<>>
                  THEN Task("done", t.api, call.op, call.args, reqs, <<>>,
                            ApiCall(t.api.client, call.op, call.args,
                                    Exchange(FALSE, 0, FALSE, FALSE, None)).ret)
                  ELSE Task("awaiting", t.api, call.op, call.args, reqs, <<>>, NoRet)])
            /\ UNCHANGED <<embed, builder>>

\* The remote service answers the request of a task.
TaskAnswer ==
    \E i \in DOMAIN last.tasks, x \in TaskAnswers :
        /\ last.tasks[i].pc = "awaiting"
        /\ last' = Tasks([last.tasks EXCEPT ![i].pc = "answered", ![i].answer = <<x>>])
        /\ UNCHANGED <<embed, builder>>

\* An operation resumes with the answer delivered to it and returns.
TaskFinish ==
    \E i \in DOMAIN last.tasks :
        LET t == last.tasks[i]
        IN  /\ t.pc = "answered"
            /\ last' = Tasks([last.tasks EXCEPT
                  ![i].pc = "done",
                  ![i].ret = ApiCall(t.api.client, t.op, t.args, Delivered(last.tasks, i)).ret])
            /\ UNCHANGED <<embed, builder>>

\* The caller takes the result; the task is free for its next operation.
TaskReturn ==
    \E i \in DOMAIN last.tasks :
        /\ last.tasks[i].pc = "done"
        /\ last' = Tasks([last.tasks EXCEPT ![i] = IdleTask(@.api)])
        /\ UNCHANGED <<embed, builder>>

InitTasks ==
    /\ embed = Embed_new
    /\ builder = MessageBuilder_new
    /\ last = Tasks([i \in 1..MaxTasks |-> IdleTask(MessageAPI_new(TheClient))])

NextTasks ==
    \/ TaskStart
    \/ TaskAnswer
    \/ TaskFinish
    \/ TaskReturn

SpecTasks == InitTasks /\ [][NextTasks]_vars

(***************************************************************************)
(* Claims about Embed::validate, checked under SpecEmbed.                  *)
(***************************************************************************)
\* The measured components of an embed in the order the specification fixes:
\* author name, title, description, footer text, then name and value of each
\* field in insertion order; each with its own ceiling.
ScalarComponents(e) ==
    << [name |-> "author", size |-> IF e.author = None THEN 0 ELSE e.author[1].name,
        max |-> Limit_AUTHOR_NAME],
       [name |-> "title", size |-> IF e.title = None THEN 0 ELSE e.title[1],
        max |-> Limit_TITLE],
       [name |-> "description", size |-> IF e.description = None THEN 0 ELSE e.description[1],
        max |-> Limit_DESCRIPTION],
       [name |-> "footer", size |-> IF e.footer = None THEN 0 ELSE e.footer[1].text,
        max |-> Limit_FOOTER_TEXT] >>

FieldComponents(e) ==
    [k \in 1..(2 * Len(e.fields)) |->
        IF k % 2 = 1
        THEN [name |-> "field name", size |-> e.fields[(k + 1) \div 2].name,
              max |-> Limit_FIELD_NAME]
        ELSE [name |-> "field value", size |-> e.fields[k \div 2].value,
              max |-> Limit_FIELD_VALUE]]

Components(e) == ScalarComponents(e) \o FieldComponents(e)

Oversized(e) == {k \in DOMAIN Components(e) : Components(e)[k].size > Components(e)[k].max}

FirstOversized(e) == CHOOSE k \in Oversized(e) : \A j \in Oversized(e) : k <= j

RECURSIVE SumSizes(_)
SumSizes(cs) == IF cs = <<>> THEN 0 ELSE Head(cs).size + SumSizes(Tail(cs))

EmbedChars(e) == SumSizes(Components(e))

ErrOf(c) == Err(TooBig(c.name, c.size, c.max))

Validated == last.op = "Embed::validate"

\* C1: Embed::validate reports the first oversized component in the order
\* author, title, description, footer, fields (name before value), and only
\* when no component is oversized may it report the aggregate "embed".
C1_FirstOversizedReported ==
    Validated =>
        /\ Oversized(embed) # {} =>
              last.ret = ErrOf(Components(embed)[FirstOversized(embed)])
        /\ (Oversized(embed) = {} /\ last.ret.tag = "Err") =>
              last.ret.err.name = "embed"

\* Several components are oversized at once, the first is not the largest,
\* and validate has reported the first.
C1_Witness ==
    /\ Validated
    /\ Cardinality(Oversized(embed)) >= 2
    /\ \E j \in Oversized(embed) :
          Components(embed)[j].size > Components(embed)[FirstOversized(embed)].size
    /\ last.ret = ErrOf(Components(embed)[FirstOversized(embed)])

\* C2: a component whose length is exactly its ceiling is never the reported
\* error; a first oversized component of length ceiling + 1 is reported as
\* TooBig(name, ceiling + 1, ceiling), also when the total including it would
\* exceed the aggregate ceiling (it is checked before it is added).
C2_CeilingInclusive ==
    Validated =>
        /\ \A k \in DOMAIN Components(embed) :
              Components(embed)[k].size = Components(embed)[k].max =>
                  last.ret # ErrOf(Components(embed)[k])
        /\ \A k \in DOMAIN Components(embed) :
              (/\ Components(embed)[k].size = Components(embed)[k].max + 1
               /\ \A j \in 1..(k - 1) : Components(embed)[j].size <= Components(embed)[j].max)
              => last.ret = Err(TooBig(Components(embed)[k].name,
                                       Components(embed)[k].max + 1,
                                       Components(embed)[k].max))

\* An embed whose description and one field are exactly at their ceilings and
\* whose footer is one past its own: validate reports the footer, although the
\* running total with the footer added would be past the aggregate ceiling.
C2_Witness ==
    /\ Validated
    /\ embed.description = Some(Limit_DESCRIPTION)
    /\ embed.footer # None
    /\ embed.footer[1].text = Limit_FOOTER_TEXT + 1
    /\ Len(embed.fields) = 1
    /\ embed.fields[1].name = Limit_FIELD_NAME
    /\ embed.fields[1].value = Limit_FIELD_VALUE
    /\ embed.author = None
    /\ embed.title = None
    /\ last.ret = Err(TooBig("footer", Limit_FOOTER_TEXT + 1, Limit_FOOTER_TEXT))

\* C3: when every component is within its ceiling, validate returns Ok(sum of
\* all component lengths) if the sum is at most 6000 and TooBig("embed", sum,
\* 6000) otherwise.
C3_AggregateTotal ==
    (Validated /\ Oversized(embed) = {}) =>
        last.ret = IF EmbedChars(embed) <= Limit_EMBED_TOTAL
                   THEN Ok(EmbedChars(embed))
                   ELSE Err(TooBig("embed", EmbedChars(embed), Limit_EMBED_TOTAL))

\* An embed with fields whose components sum to one past the aggregate
\* ceiling, each within its own ceiling, has been rejected as "embed".
C3_Witness ==
    /\ Validated
    /\ Oversized(embed) = {}
    /\ embed.fields # <<>>
    /\ EmbedChars(embed) > Limit_EMBED_TOTAL
    /\ last.ret = Err(TooBig("embed", EmbedChars(embed), Limit_EMBED_TOTAL))

\* The sum exactly at the aggregate ceiling has been accepted.
C3_AtCeiling ==
    /\ Validated
    /\ EmbedChars(embed) = Limit_EMBED_TOTAL
    /\ last.ret = Ok(Limit_EMBED_TOTAL)

\* C4: an embed holding more than Limit::FIELDS (25) fields is rejected by
\* Embed::validate.
C4_FieldCountEnforced ==
    (Validated /\ Len(embed.fields) > Limit_FIELDS) => last.ret.tag = "Err"

(***************************************************************************)
(* Claims about the MessageBuilder, checked under SpecBuilder and Spec.    *)
(***************************************************************************)
\* What the specification says Embed::validate returns for an embed.
EmbedVerdict(e) ==
    IF Oversized(e) # {} THEN ErrOf(Components(e)[FirstOversized(e)])
    ELSE IF EmbedChars(e) <= Limit_EMBED_TOTAL THEN Ok(EmbedChars(e))
    ELSE Err(TooBig("embed", EmbedChars(e), Limit_EMBED_TOTAL))

FailingEmbeds(b) == {i \in 1..Len(b.embeds) : EmbedVerdict(b.embeds[i]).tag = "Err"}

FirstFailingEmbed(b) == CHOOSE i \in FailingEmbeds(b) : \A j \in FailingEmbeds(b) : i <= j

RECURSIVE SumEmbedChars(_)
SumEmbedChars(embeds) ==
    IF embeds = <<>> THEN 0 ELSE EmbedChars(Head(embeds)) + SumEmbedChars(Tail(embeds))

UsernameTooLong(b) == b.username # None /\ b.username[1] > Limit_USERNAME
ContentTooLong(b) == b.content # None /\ b.content[1] > Limit_CONTENT

MessageValidated == last.op = "MessageBuilder::validate"

\* C5: embed(func) on a builder that holds 10 embeds changes nothing, raises
\* no error and does not call func; on a builder with fewer than 10 it appends
\* exactly one embed, func applied to an empty Embed, at the end.
C5_EleventhEmbedDropped ==
    [][last'.op = "MessageBuilder::embed" =>
          IF Len(builder.embeds) = Limit_EMBEDS
          THEN /\ builder' = builder
               /\ last'.calls = 0
               /\ last'.ret = NoRet
          ELSE Len(builder.embeds) < Limit_EMBEDS =>
               /\ last'.calls = 1
               /\ \E f \in Funcs :
                     builder' = [builder EXCEPT
                                    !.embeds = builder.embeds \o <<ApplyFunc(f, Embed_new)>>]
    ]_vars

\* A builder that holds 10 embeds, not all alike, right after an embed() that
\* was dropped.
C5_Witness ==
    /\ last.op = "MessageBuilder::embed"
    /\ last.calls = 0
    /\ Len(builder.embeds) = Limit_EMBEDS
    /\ builder.embeds[1] # builder.embeds[Limit_EMBEDS]

\* C6: the builder never holds more than 10 embeds, and create or edit never
\* sends a builder that holds more than 10.
C6_AtMostTenEmbeds ==
    /\ Len(builder.embeds) <= Limit_EMBEDS
    /\ (last.op \in {"MessageAPI::create", "MessageAPI::edit"}
        /\ Len(builder.embeds) > Limit_EMBEDS) => last.reqs = <<>>

\* C7: MessageBuilder::validate checks username, content, each embed in
\* order, then the aggregate, and returns the first failure: the username's,
\* else the content's, else the earliest failing embed's own error unchanged.
C7_ValidateOrder ==
    MessageValidated =>
        IF UsernameTooLong(builder)
        THEN last.ret = Err(TooBig("username", builder.username[1], Limit_USERNAME))
        ELSE IF ContentTooLong(builder)
        THEN last.ret = Err(TooBig("content", builder.content[1], Limit_CONTENT))
        ELSE IF FailingEmbeds(builder) # {}
        THEN last.ret = EmbedVerdict(builder.embeds[FirstFailingEmbed(builder)])
        ELSE last.ret.tag = "Err" =>
                 /\ last.ret.err.name = "embed"
                 /\ last.ret.err.size = SumEmbedChars(builder.embeds)

\* Username, content and two embeds that fail differently are all oversized,
\* and validate has reported the username.
C7_Witness ==
    /\ MessageValidated
    /\ UsernameTooLong(builder)
    /\ ContentTooLong(builder)
    /\ Cardinality({EmbedVerdict(builder.embeds[i]) : i \in FailingEmbeds(builder)}) >= 2
    /\ last.ret = Err(TooBig("username", Limit_USERNAME + 1, Limit_USERNAME))

\* The earliest of two embeds that fail differently has been reported.
C7_EarliestEmbed ==
    /\ MessageValidated
    /\ ~UsernameTooLong(builder)
    /\ ~ContentTooLong(builder)
    /\ Cardinality({EmbedVerdict(builder.embeds[i]) : i \in FailingEmbeds(builder)}) >= 2
    /\ last.ret = EmbedVerdict(builder.embeds[FirstFailingEmbed(builder)])

\* C8: when username, content and every embed pass their own checks,
\* validate returns Ok(S) for S, the sum of the embeds' totals, at most 6000
\* and TooBig("embed", S, 6000) above.
C8_AggregateOfEmbeds ==
    (/\ MessageValidated
     /\ ~UsernameTooLong(builder)
     /\ ~ContentTooLong(builder)
     /\ FailingEmbeds(builder) = {})
    => last.ret = IF SumEmbedChars(builder.embeds) <= Limit_EMBED_TOTAL
                  THEN Ok(SumEmbedChars(builder.embeds))
                  ELSE Err(TooBig("embed", SumEmbedChars(builder.embeds), Limit_EMBED_TOTAL))

\* Embeds that each pass alone sum to one past the aggregate ceiling and the
\* message has been rejected as "embed".
C8_Witness ==
    /\ MessageValidated
    /\ FailingEmbeds(builder) = {}
    /\ SumEmbedChars(builder.embeds) = Limit_EMBED_TOTAL + 1
    /\ last.ret = Err(TooBig("embed", Limit_EMBED_TOTAL + 1, Limit_EMBED_TOTAL))

\* The sum exactly at the aggregate ceiling has been accepted.
C8_AtCeiling ==
    /\ MessageValidated
    /\ Len(builder.embeds) >= 2
    /\ last.ret = Ok(Limit_EMBED_TOTAL)

C10_TotalCountsEmbedsOnly ==
    (MessageValidated /\ last.ret.tag = "Ok") =>
        /\ last.ret.val = SumEmbedChars(builder.embeds)
        /\ builder.embeds = <<>> => last.ret.val = 0

\* A message with a username, a content and no embeds has validated with
\* total 0.
C10_Witness ==
    /\ MessageValidated
    /\ builder.username # None
    /\ builder.content # None
    /\ builder.embeds = <<>>
    /\ last.ret = Ok(0)

(***************************************************************************)
(* Claims about Embed::color, checked under SpecColor.                     *)
(***************************************************************************)
\* The string of the colour call that a step makes.
ColorArg == Flatten(last'.arg)

ColorCalled == last'.op = "Embed::color"

\* What the specification calls a base-16 unsigned integer: after one
\* optional `+`, one or more hexadecimal digits of which at most eight
\* follow the leading zeros, so that the value fits 32 bits.
IsHexNumber(str) ==
    LET digits == IF str # <<>> /\ Head(str) = "+" THEN Tail(str) ELSE str
        zeros  == {i \in 1..Len(digits) : \A j \in 1..i : digits[j] = "0"}
    IN  /\ digits # <<>>
        /\ \A i \in 1..Len(digits) : digits[i] \in DOMAIN HexDigit
        /\ Len(digits) - Cardinality(zeros) <= 8

\* The string with one leading `#` taken off.
Remainder(str) == IF str # <<>> /\ Head(str) = "#" THEN Tail(str) ELSE str

\* C11 as claimed: for every string h, color("#" + h) leaves the embed that
\* color(h) leaves on an equal embed.
C11_HashPrefixIrrelevant ==
    [][(ColorCalled /\ ColorArg # <<>> /\ Head(ColorArg) = "#")
          => embed' = Embed_color(embed, Tail(ColorArg))]_vars

\* C11 as amended: for every string h that does not itself begin with `#`,
\* color("#" + h) leaves the embed that color(h) leaves on an equal embed.
C11_HashPrefixOnce ==
    [][(/\ ColorCalled
        /\ ColorArg # <<>>
        /\ Head(ColorArg) = "#"
        /\ ~(Tail(ColorArg) # <<>> /\ Head(Tail(ColorArg)) = "#"))
          => embed' = Embed_color(embed, Tail(ColorArg))]_vars

\* color("#CBA6F7") has stored the integer 0xCBA6F7 = 203 * 2^16 + 42743.
C11_Witness ==
    /\ last.op = "Embed::color"
    /\ Flatten(last.arg) = <<"#", "C", "B", "A", "6", "F", "7">>
    /\ embed.color = Some(U32(203, 42743))

\* C12: color() with the empty string, or with a string whose remainder after
\* an optional `#` is no base-16 unsigned integer, leaves the colour as it
\* was (unset on an embed that had none) and returns the embed, not an error.
C12_BadColorIgnored ==
    [][(ColorCalled /\ (ColorArg = <<>> \/ ~IsHexNumber(Remainder(ColorArg))))
          => /\ embed' = embed
             /\ last'.ret = NoRet]_vars

\* color() has been called with a string that is no hexadecimal number on an
\* embed without a colour, and the embed still has none.
C12_Witness ==
    /\ last.op = "Embed::color"
    /\ Flatten(last.arg) = <<"G">>
    /\ embed.color = None

(***************************************************************************)
(* Claims about MessageAPI and Client::send, checked under Spec.           *)
(***************************************************************************)
ApiOps == {"MessageAPI::create", "MessageAPI::get", "MessageAPI::edit", "MessageAPI::delete"}
ValidatingOps == {"MessageAPI::create", "MessageAPI::edit"}
ParsingOps == {"MessageAPI::create", "MessageAPI::get", "MessageAPI::edit"}

IsErr(ret, kind) == ret.tag = "Err" /\ ret.err.kind = kind

\* The last call was to the API and awaited one send.
SentOnce == last.op \in ApiOps /\ Len(last.sent) = 1

\* C13: when validate fails for the message passed to create or edit, the
\* operation returns that TooBig error and issues no request; TooBig comes
\* only from create and edit, and only without a request.
C13_ValidationBeforeNetwork ==
    LET valid == MessageBuilder_validate(builder)
    IN  /\ (last.op \in ValidatingOps /\ valid.tag = "Err")
              => /\ last.ret = valid
                 /\ IsErr(last.ret, "TooBig")
                 /\ last.reqs = <<>>
        /\ (last.op \in ApiOps /\ IsErr(last.ret, "TooBig"))
              => /\ last.op \in ValidatingOps
                 /\ last.reqs = <<>>
                 /\ valid.tag = "Err"

\* edit() of a message that fails validation has returned TooBig without a
\* request.
C13_Witness ==
    /\ last.op = "MessageAPI::edit"
    /\ IsErr(last.ret, "TooBig")
    /\ last.reqs = <<>>
    /\ MessageBuilder_validate(builder).tag = "Err"

\* C14: send classifies every exchange into one outcome: a transport failure
\* is Unknown; status 200 is Ok(body text), or Unknown when the body cannot
\* be read or decoded; status 204 is NoContent; every other status is
\* BadStatus carrying the status code; Ok is returned for status 200 only.
C14_SendClassifies ==
    SentOnce =>
        LET x == last.answers[1]
            r == last.sent[1]
        IN  /\ ~x.arrived => IsErr(r, "Unknown")
            /\ (x.arrived /\ x.status = 200 /\ x.readable /\ x.utf8) => r = Ok(x.text)
            /\ (x.arrived /\ x.status = 200 /\ ~(x.readable /\ x.utf8)) => IsErr(r, "Unknown")
            /\ (x.arrived /\ x.status = 204) => r = Err(NoContent)
            /\ (x.arrived /\ x.status \notin {200, 204})
                  => /\ IsErr(r, "BadStatus")
                     /\ r.err.code[Len(r.err.code)] = x.status
            /\ r.tag = "Ok" => (x.arrived /\ x.status = 200)

\* A request answered with status 201 has been reported as BadStatus with 201.
C14_Witness ==
    /\ SentOnce
    /\ last.answers[1].arrived
    /\ last.answers[1].status = 201
    /\ last.sent[1] = Err(BadStatus(<<"Status Code: ", 201>>))

\* C15: delete answered with status 204 returns Ok(()), although send
\* reports the 204 as the NoContent error.
C15_DeleteNoContentIsSuccess ==
    (/\ last.op = "MessageAPI::delete"
     /\ last.answers[1].arrived
     /\ last.answers[1].status = 204)
        => /\ last.sent = <<Err(NoContent)>>
           /\ last.ret = Ok("()")

\* delete has been answered with status 204 and has returned Ok(()).
C15_Witness ==
    /\ last.op = "MessageAPI::delete"
    /\ last.answers[1].status = 204
    /\ last.sent = <<Err(NoContent)>>
    /\ last.ret = Ok("()")

\* C16: create, get and edit return every error of send unchanged; a 204
\* answer to any of them is Err(NoContent).
C16_ErrorsSurfaceUnchanged ==
    (last.op \in ParsingOps /\ Len(last.sent) = 1)
        => /\ last.sent[1].tag = "Err" => last.ret = last.sent[1]
           /\ (last.answers[1].arrived /\ last.answers[1].status = 204)
                 => last.ret = Err(NoContent)

\* get has been answered with status 204 and has returned Err(NoContent).
C16_Witness ==
    /\ last.op = "MessageAPI::get"
    /\ Len(last.sent) = 1
    /\ last.answers[1].status = 204
    /\ last.ret = Err(NoContent)

\* C17: a call of create, get, edit or delete issues at most one request:
\* exactly one for get and delete, and for create and edit when validation
\* passes; a failed send is awaited once and, NoContent for delete aside,
\* its error is the one Result of the call.
C17_NoRetries ==
    last.op \in ApiOps =>
        /\ Len(last.reqs) <= 1
        /\ Len(last.sent) = Len(last.reqs)
        /\ last.op \notin ValidatingOps => Len(last.reqs) = 1
        /\ (last.op \in ValidatingOps /\ MessageBuilder_validate(builder).tag = "Ok")
              => Len(last.reqs) = 1
        /\ (Len(last.sent) = 1 /\ last.sent[1].tag = "Err"
            /\ ~(last.op = "MessageAPI::delete" /\ last.sent[1] = Err(NoContent)))
              => last.ret = last.sent[1]

\* get has failed on the transport after a single request.
C17_Witness ==
    /\ last.op = "MessageAPI::get"
    /\ Len(last.reqs) = 1
    /\ ~last.answers[1].arrived
    /\ IsErr(last.ret, "Unknown")

\* The bodies of the remote service that are a response Message.
IsMessageText(text) == \E m \in Messages : text = MessageText(m)

TheMessage(text) == CHOOSE m \in Messages : text = MessageText(m)

\* C18: create, get and edit return BadParse exactly when send succeeded and
\* the body is no response Message; a body that is one yields Ok(message).
C18_BadParseExactly ==
    last.op \in ParsingOps =>
        LET ok == Len(last.sent) = 1 /\ last.sent[1].tag = "Ok"
        IN  /\ IsErr(last.ret, "BadParse") <=> (ok /\ ~IsMessageText(last.sent[1].val))
            /\ (ok /\ IsMessageText(last.sent[1].val))
                  => last.ret = Ok(TheMessage(last.sent[1].val))
            /\ ok => (last.answers[1].status = 200 /\ last.answers[1].utf8)

\* create has received a body with fields missing and returned BadParse.
C18_Witness ==
    /\ last.op = "MessageAPI::create"
    /\ last.sent = <<Ok(Some([id |-> "M1"]))>>
    /\ last.ret = Err(BadParse("create response"))

\* edit has received the text of a response Message and returned the Message.
C18_Parsed ==
    /\ last.op = "MessageAPI::edit"
    /\ Len(last.sent) = 1
    /\ last.sent[1].tag = "Ok"
    /\ last.ret.tag = "Ok"
    /\ last.ret.val \in Messages

(***************************************************************************)
(* Claims about from_url, checked under SpecUrl.                           *)
(***************************************************************************)
Slashes(url) == {i \in 1..Len(url) : url[i] = "/"}

\* The greatest member of a non-empty set of numbers.
Greatest(S) == CHOOSE i \in S : \A j \in S : j <= i

\* C19: from_url splits the URL on `/`: a URL of fewer than 7 segments (fewer
\* than 6 slashes) is a parse error; otherwise resource_id is the text
\* between the last two slashes and secret_token the text after the last.
\* "https://host/api/webhooks/1111/abcd" gives "1111" and "abcd", and
\* "https://host/short" a parse error.
C19_FromUrl ==
    last.op = "WebhookApi::from_url" =>
        LET url == Flatten(last.arg)
            slashes == Slashes(url)
        IN  /\ Cardinality(slashes) + 1 < 7 => IsErr(last.ret, "BadParse")
            /\ Cardinality(slashes) + 1 >= 7 =>
                  LET k == Greatest(slashes)
                      j == Greatest(slashes \ {k})
                  IN  /\ last.ret.tag = "Ok"
                      /\ last.ret.val.id = SubSeq(url, j + 1, k - 1)
                      /\ last.ret.val.token = SubSeq(url, k + 1, Len(url))
            /\ url = UrlBase \o UrlApi \o UrlId \o <<"/">> \o UrlToken
                  => last.ret = Ok([id |-> UrlId, token |-> UrlToken])
            /\ url = UrlBase \o UrlShort => IsErr(last.ret, "BadParse")

\* from_url("https://host/api/webhooks/1111/abcd") has given "1111", "abcd".
C19_Witness ==
    /\ last.op = "WebhookApi::from_url"
    /\ Flatten(last.arg) = UrlBase \o UrlApi \o UrlId \o <<"/">> \o UrlToken
    /\ last.ret = Ok([id |-> UrlId, token |-> UrlToken])

\* from_url("https://host/short") has reported a parse error.
C19_Short ==
    /\ last.op = "WebhookApi::from_url"
    /\ Flatten(last.arg) = UrlBase \o UrlShort
    /\ IsErr(last.ret, "BadParse")

(***************************************************************************)
(* Claims about MessageBuilder::from, checked under SpecBuilder.           *)
(***************************************************************************)
\* C20: from(message) yields a builder whose content is the content of the
\* message and whose embeds are the embeds of the message in their order,
\* with username and tts unset; the message is as it was.
C20_FromCopies ==
    last.op = "MessageBuilder::from" =>
        /\ builder.content = Some(last.arg.content)
        /\ Len(builder.embeds) = Len(last.arg.embeds)
        /\ \A i \in 1..Len(last.arg.embeds) : builder.embeds[i] = last.arg.embeds[i]
        /\ builder.username = None
        /\ builder.tts = None
        /\ last.source = last.arg

\* from() has copied a message whose content is above the ceiling of content.
C20_Witness ==
    /\ last.op = "MessageBuilder::from"
    /\ last.arg.content > Limit_CONTENT
    /\ builder.content = Some(last.arg.content)

\* from() has copied a message of two different embeds.
C20_TwoEmbeds ==
    /\ last.op = "MessageBuilder::from"
    /\ Len(builder.embeds) = 2
    /\ builder.embeds[1] # builder.embeds[2]
    /\ builder.embeds = last.arg.embeds

(***************************************************************************)
(* Claims about the setters of MessageBuilder.                             *)
(***************************************************************************)
\* What validate reports for one field: validate of a builder that holds
\* that field of b and nothing else.
FieldVerdict(b, field) ==
    MessageBuilder_validate([MessageBuilder_new EXCEPT ![field] = b[field]])

\* The verdict a setter owes for a string of length len under ceiling max.
SetterVerdict(name, len, max) ==
    IF len > max THEN Err(TooBig(name, len, max)) ELSE Ok("()")

\* C21: username(s) returns TooBig("username", len(s), 80) exactly when
\* len(s) > 80 and Ok otherwise, content(s) returns TooBig("content", len(s),
\* 2000) exactly when len(s) > 2000 and Ok otherwise, and validate called
\* next reports the same for that field: the same error when the setter
\* failed, no error for the field when it did not.
C21_SetterVerdicts ==
    /\ last.op = "MessageBuilder::username" =>
          /\ last.ret = SetterVerdict("username", last.arg, 80)
          /\ last.ret.tag = "Err" =>
                /\ FieldVerdict(builder, "username") = last.ret
                /\ MessageBuilder_validate(builder) = last.ret
          /\ last.ret.tag = "Ok" =>
                /\ FieldVerdict(builder, "username").tag = "Ok"
                /\ ~(/\ IsErr(MessageBuilder_validate(builder), "TooBig")
                     /\ MessageBuilder_validate(builder).err.name = "username")
    /\ last.op = "MessageBuilder::content" =>
          /\ last.ret = SetterVerdict("content", last.arg, 2000)
          /\ last.ret.tag = "Err" =>
                /\ FieldVerdict(builder, "content") = last.ret
                /\ MessageBuilder_validate(builder).tag = "Err"
                /\ ~UsernameTooLong(builder) => MessageBuilder_validate(builder) = last.ret
          /\ last.ret.tag = "Ok" =>
                /\ FieldVerdict(builder, "content").tag = "Ok"
                /\ ~(/\ IsErr(MessageBuilder_validate(builder), "TooBig")
                     /\ MessageBuilder_validate(builder).err.name = "content")

\* username() has accepted a username of 80 and content() has rejected a
\* content of 2001.
C21_Witness ==
    /\ last.op = "MessageBuilder::content"
    /\ last.arg = Limit_CONTENT + 1
    /\ last.ret = Err(TooBig("content", Limit_CONTENT + 1, Limit_CONTENT))
    /\ builder.username = Some(Limit_USERNAME)

\* username() has accepted a username of exactly 80.
C21_AtCeiling ==
    /\ last.op = "MessageBuilder::username"
    /\ last.arg = Limit_USERNAME
    /\ last.ret = Ok("()")

(***************************************************************************)
(* Claims about the serialized message, checked under Spec.                *)
(***************************************************************************)
\* The JSON object holds key k exactly when the Option r[k] is Some.
OmitsNone(json, r, optional) ==
    \A k \in optional : (k \in DOMAIN json) <=> (r[k] # None)

\* The optional attributes of the structs nested in an embed.
NestedOptionKeys ==
    [author |-> {"url", "icon_url", "proxy_icon_url"},
     footer |-> {"icon_url", "proxy_icon_url"},
     image |-> {"url", "proxy_url", "height", "width"},
     thumbnail |-> {"url", "proxy_url", "height", "width"},
     video |-> {"url", "proxy_url", "height", "width"},
     provider |-> {"name", "url"}]

EmbedOmitsNone(json, e) ==
    /\ OmitsNone(json, e, EmbedOptionKeys)
    /\ "fields" \in DOMAIN json
    /\ Len(json.fields) = Len(e.fields)
    /\ \A i \in 1..Len(e.fields) : OmitsNone(json.fields[i], e.fields[i], {"inline"})
    /\ \A k \in DOMAIN NestedOptionKeys :
          e[k] # None => OmitsNone(json[k], e[k][1], NestedOptionKeys[k])

\* The body of the one request the last call has issued.
SentBody == last.reqs[1].body[1]

\* C22: in the body of a request of create or edit a field that is None
\* (username, content, tts, every optional attribute of an embed) is no key
\* of the JSON object, a field that is Some is, and embeds is always a key,
\* of as many entries as the builder has embeds.
C22_AbsentOmitted ==
    (last.op \in ValidatingOps /\ Len(last.reqs) = 1) =>
        /\ OmitsNone(SentBody, builder, {"username", "content", "tts"})
        /\ "embeds" \in DOMAIN SentBody
        /\ Len(SentBody.embeds) = Len(builder.embeds)
        /\ \A i \in 1..Len(builder.embeds) :
              EmbedOmitsNone(SentBody.embeds[i], builder.embeds[i])

\* create has sent a builder that holds a username only: the body has the
\* keys username and embeds, the list of embeds empty.
C22_Witness ==
    /\ last.op = "MessageAPI::create"
    /\ Len(last.reqs) = 1
    /\ builder.username # None
    /\ DOMAIN SentBody = {"username", "embeds"}
    /\ SentBody.embeds = <<>>

\* edit has sent an embed whose author has a name and nothing else, and an
\* embed with a field that has no inline flag.
C22_NestedOmitted ==
    /\ last.op = "MessageAPI::edit"
    /\ Len(last.reqs) = 1
    /\ Len(builder.embeds) = 2
    /\ builder.embeds[1].author # None
    /\ DOMAIN SentBody.embeds[1].author = {"name"}
    /\ Len(builder.embeds[2].fields) = 1
    /\ DOMAIN SentBody.embeds[2].fields[1] = {"name", "value"}

(***************************************************************************)
(* Further claims about MessageAPI, checked under Spec.                    *)
(***************************************************************************)
\* C23: delete returns Ok(()) exactly when send returned Ok (status 200) or
\* the NoContent error (status 204); every other error of send (Unknown,
\* BadStatus) is returned as it is.
C23_DeleteResult ==
    last.op = "MessageAPI::delete" =>
        LET r == last.sent[1]
            x == last.answers[1]
            success == r.tag = "Ok" \/ r = Err(NoContent)
        IN  /\ Len(last.sent) = 1
            /\ last.ret = Ok("()") <=> success
            /\ success <=> (x.arrived /\ (x.status = 204 \/
                                          (x.status = 200 /\ x.readable /\ x.utf8)))
            /\ ~success => (/\ last.ret = r
                            /\ r.err.kind \in {"Unknown", "BadStatus"})

\* delete has been answered with status 404 and has returned the BadStatus
\* error of send.
C23_Witness ==
    /\ last.op = "MessageAPI::delete"
    /\ last.answers[1].status = 404
    /\ IsErr(last.ret, "BadStatus")
    /\ last.ret = last.sent[1]

\* delete has been answered with status 200 and has returned Ok(()).
C23_Deleted ==
    /\ last.op = "MessageAPI::delete"
    /\ last.sent[1].tag = "Ok"
    /\ last.ret = Ok("()")

\* C25: username(s) and content(s) assign s before they check it: after
\* TooBig the builder holds s; create and edit with a builder that holds an
\* oversized username or content return TooBig without a request, and with
\* the field overwritten by a value within its ceiling no longer do so for
\* that field.
C25_AssignBeforeCheck ==
    /\ last.op = "MessageBuilder::username" => builder.username = Some(last.arg)
    /\ last.op = "MessageBuilder::content" => builder.content = Some(last.arg)
    /\ (last.op \in ValidatingOps /\ (UsernameTooLong(builder) \/ ContentTooLong(builder)))
          => /\ IsErr(last.ret, "TooBig")
             /\ last.ret.err.name \in {"username", "content"}
             /\ last.reqs = <<>>
    /\ (last.op \in ValidatingOps /\ ~UsernameTooLong(builder) /\ ~ContentTooLong(builder))
          => ~(IsErr(last.ret, "TooBig") /\ last.ret.err.name \in {"username", "content"})

\* content(s) has returned TooBig and the builder holds s.
C25_Witness ==
    /\ last.op = "MessageBuilder::content"
    /\ IsErr(last.ret, "TooBig")
    /\ builder.content = Some(Limit_CONTENT + 1)

\* edit with a builder that holds an oversized content has been rejected
\* without a request.
C25_Rejected ==
    /\ last.op = "MessageAPI::edit"
    /\ ContentTooLong(builder)
    /\ ~UsernameTooLong(builder)
    /\ last.ret = Err(TooBig("content", Limit_CONTENT + 1, Limit_CONTENT))
    /\ last.reqs = <<>>

\* C29: that a message carries content or embeds is not enforced: for a
\* builder with no content and no embeds validate returns Ok(0), and create
\* and edit issue their request (an oversized username being the one thing
\* that can still reject such a builder).
C29_EmptyMessageSent ==
    (builder.content = None /\ builder.embeds = <<>>) =>
        /\ last.op = "MessageBuilder::validate" =>
              IF UsernameTooLong(builder)
              THEN IsErr(last.ret, "TooBig") /\ last.ret.err.name = "username"
              ELSE last.ret = Ok(0)
        /\ last.op \in ValidatingOps =>
              IF UsernameTooLong(builder)
              THEN IsErr(last.ret, "TooBig") /\ last.ret.err.name = "username"
              ELSE /\ Len(last.reqs) = 1
                   /\ "content" \notin DOMAIN SentBody
                   /\ SentBody.embeds = <<>>

\* create with a new builder has issued its POST with a body of no content
\* and no embeds.
C29_Witness ==
    /\ last.op = "MessageAPI::create"
    /\ builder = MessageBuilder_new
    /\ Len(last.reqs) = 1
    /\ last.reqs[1].method = "POST"
    /\ SentBody = [embeds |-> <<>>]

\* validate of a new builder has returned Ok(0).
C29_Validated ==
    /\ last.op = "MessageBuilder::validate"
    /\ builder = MessageBuilder_new
    /\ last.ret = Ok(0)

(***************************************************************************)
(* Further claims about Embed::color, checked under SpecColor.             *)
(***************************************************************************)
\* C26: every colour that color() stores is a 24-bit value, 0 to 0xFFFFFF:
\* its upper half is below 2^8.
C26_ColorIs24Bit ==
    embed.color # None => embed.color[1].hi < 256

\* C27: a call of color() with the empty string or a string that does not
\* parse, on an embed whose colour an earlier call has set, keeps that
\* colour and every other attribute of the embed.
C27_FailedColorKeepsAll ==
    [][(/\ ColorCalled
        /\ ColorArg = <<>> \/ ~IsHexNumber(Remainder(ColorArg))
        /\ embed.color # None)
          => /\ embed'.color = embed.color
             /\ \A k \in DOMAIN embed \ {"color"} : embed'[k] = embed[k]]_vars

\* color() has failed on an embed that holds a colour, a title and a field,
\* and the embed still holds them.
C27_Witness ==
    /\ last.op = "Embed::color"
    /\ Flatten(last.arg) = <<"G">>
    /\ embed.color = Some(U32(203, 42743))
    /\ embed.title = Some(1)
    /\ Len(embed.fields) = 1

(***************************************************************************)
(* Claims about the setters of Embed, checked under SpecSetters.           *)
(***************************************************************************)
\* The attribute each setter is named after.
SetterAttribute ==
    ("Embed::title" :> "title") @@ ("Embed::description" :> "description") @@
    ("Embed::url" :> "url") @@ ("Embed::timestamp" :> "timestamp") @@
    ("Embed::footer" :> "footer") @@ ("Embed::image" :> "image") @@
    ("Embed::thumbnail" :> "thumbnail") @@ ("Embed::video" :> "video") @@
    ("Embed::provider" :> "provider") @@ ("Embed::author" :> "author")

\* C28: the setters of Embed never fail and change their own attribute only:
\* title, description, url, timestamp, footer, image, thumbnail, video,
\* provider and author store what they were passed in one attribute and
\* leave every other attribute and the fields as they were; field() appends
\* one entry at the end of the fields, however many there are and however
\* long the strings, and leaves everything else as it was.
C28_SettersFrame ==
    [][/\ last'.op \in DOMAIN SetterAttribute =>
             /\ embed'[SetterAttribute[last'.op]] = Some(last'.arg)
             /\ \A k \in DOMAIN embed \ {SetterAttribute[last'.op]} : embed'[k] = embed[k]
             /\ last'.ret = NoRet
       /\ last'.op = "Embed::field" =>
             /\ Len(embed'.fields) = Len(embed.fields) + 1
             /\ embed'.fields[Len(embed'.fields)] = last'.arg
             /\ \A i \in 1..Len(embed.fields) : embed'.fields[i] = embed.fields[i]
             /\ \A k \in DOMAIN embed \ {"fields"} : embed'[k] = embed[k]
             /\ last'.ret = NoRet]_vars

\* field() has appended a field to an embed that held Limit_FIELDS fields.
C28_Witness ==
    /\ last.op = "Embed::field"
    /\ Len(embed.fields) = Limit_FIELDS + 1

\* title() has stored a title above its ceiling on an embed that holds a
\* footer.
C28_Oversized ==
    /\ last.op = "Embed::title"
    /\ embed.title = Some(Limit_TITLE + 1)
    /\ embed.footer # None

(***************************************************************************)
(* Claims about requests and concurrent operations, checked under          *)
(* SpecTasks.                                                              *)
(***************************************************************************)
\* root/resource_id/secret_token of the client every MessageAPI was made of.
BaseUrl == <<ROOT_URI, "/", TheClient.id, "/", TheClient.token>>

\* The request the claim prescribes for an operation and its arguments.
Prescribed(op, args) ==
    CASE op = "MessageAPI::create" ->
            [method |-> "POST",
             uri |-> IF args.thread_id = None
                     THEN BaseUrl \o <<"?wait=true">>
                     ELSE BaseUrl \o <<"?wait=true", "&thread_id=", args.thread_id[1]>>,
             content_type |-> "application/json",
             body |-> Some(Serialize_MessageBuilder(args.message))]
      [] op = "MessageAPI::get" ->
            [method |-> "GET", uri |-> BaseUrl \o <<"/messages/", args.id>>,
             content_type |-> "application/json", body |-> None]
      [] op = "MessageAPI::edit" ->
            [method |-> "PATCH", uri |-> BaseUrl \o <<"/messages/", args.id>>,
             content_type |-> "application/json",
             body |-> Some(Serialize_MessageBuilder(args.message))]
      [] op = "MessageAPI::delete" ->
            [method |-> "DELETE", uri |-> BaseUrl \o <<"/messages/", args.id>>,
             content_type |-> "application/json", body |-> None]

\* C24: every request an operation issues goes to base_url + suffix with the
\* method and body of its operation: create POST "?wait=true", with
\* "&thread_id=<id>" exactly when a thread id is passed, and the serialized
\* message; get GET "/messages/<id>" and an empty body; edit PATCH
\* "/messages/<id>" and the serialized message; delete DELETE
\* "/messages/<id>" and an empty body.
C24_RequestShape ==
    \A i \in DOMAIN last.tasks :
        LET t == last.tasks[i]
        IN  /\ Len(t.reqs) <= 1
            /\ t.reqs # <<>> => t.reqs[1] = Prescribed(t.op, t.args)

\* A create with a thread id and a get of message M2 are in flight at once.
C24_Witness ==
    \E i, j \in DOMAIN last.tasks :
        /\ last.tasks[i].op = "MessageAPI::create"
        /\ last.tasks[i].args.thread_id = Some("T1")
        /\ last.tasks[i].reqs # <<>>
        /\ last.tasks[i].reqs[1].uri = BaseUrl \o <<"?wait=true", "&thread_id=", "T1">>
        /\ last.tasks[j].op = "MessageAPI::get"
        /\ last.tasks[j].reqs # <<>>
        /\ last.tasks[j].reqs[1].uri = BaseUrl \o <<"/messages/", "M2">>

====
